---- MODULE Spec2Model ----
(***************************************************************************)
(* State-machine model of rogue_dhcp_server.py: the RogueDHCPServer        *)
(* object (address pool, allocation table, configuration), the frames it   *)
(* has sent, its log stream, and the sniff loop that hands every captured  *)
(* frame to process_packet.                                                *)
(*                                                                         *)
(* Text values are modelled by their structure:                            *)
(*   - an address string is the sequence of its dot-separated parts, each  *)
(*     part a number, or -1 for a part that is not a number;               *)
(*   - a hardware-address string "hh:hh:hh:hh:hh:hh" is the sequence of    *)
(*     its 12 hexadecimal digits, and its raw form the 6 byte values.      *)
(***************************************************************************)
EXTENDS Integers, Sequences, FiniteSets, TLC

VARIABLES
    ip_pool,        \* self.ip_pool: the configured CIDR
    subnet_mask,    \* self.subnet_mask
    gateway,        \* self.gateway
    dns_servers,    \* self.dns_servers
    lease_time,     \* self.lease_time
    server_ip,      \* self.server_ip
    available_ips,  \* self.available_ips
    allocated_ips,  \* self.allocated_ips
    sent,           \* frames handed to sendp, in order
    log,            \* records written to the logger, in order
    pc,             \* "constructed", "sniffing" or "exited"
    exit_code,      \* the process's exit status, -1 while it runs
    captured,       \* number of frames sniff has passed to process_packet
    nDiscover,      \* how many of them were Discover frames
    nRequest,       \* how many of them were Request frames
    config_file,    \* the file load_config reads
    link_up,        \* whether sendp on the interface succeeds
    fault,          \* the kind of the exception raised, "none" so far
    seen            \* (source, chaddr) of the Discovers captured whose
                    \* chaddr is not the raw form of their source

vars == <<ip_pool, subnet_mask, gateway, dns_servers, lease_time, server_ip,
          available_ips, allocated_ips, sent, log, pc, exit_code,
          captured, nDiscover, nRequest, config_file, link_up, fault, seen>>

---------------------------------------------------------------------------
(* Bounds of the model *)

MaxFrames == 4
MaxDns == 2
MaxPoolFrames == 7

---------------------------------------------------------------------------
(* Inputs *)

MacA == <<0,2, 0,0, 0,0, 0,0, 0,0, 0,10>>
MacB == <<0,2, 0,0, 0,0, 0,0, 0,0, 0,11>>
MacC == <<0,2, 0,0, 0,0, 0,0, 0,0, 0,12>>
IfaceMac == <<13,14, 10,13, 11,14, 14,15, 0,0, 0,1>>

ClientMacs == {MacA, MacB}
Xids == {17, 42}

Broadcast == <<255, 255, 255, 255>>
BroadcastMac == <<15,15, 15,15, 15,15, 15,15, 15,15, 15,15>>

DefaultLeaseTime == 300

\* Configured ip_pool values: an address and a prefix length.
IpPools ==
    { [addr |-> <<192, 168, 50, 0>>, prefixlen |-> 30],
      [addr |-> <<192, 168, 50, 5>>, prefixlen |-> 31],
      [addr |-> <<192, 168, 50, 5>>, prefixlen |-> 32] }

Gateways == { <<192, 168, 50, 1>> }
SubnetMasks == { <<255, 255, 255, 252>> }

\* Entries a configured DNS list may hold: "8.8.8.8", "1.1", "1.1.1.300"
\* and "not-an-ip" (one part, -1: not a number).
DnsEntries == { <<8, 8, 8, 8>>, <<1, 1>>, <<1, 1, 1, 300>>, <<-1>> }

RECURSIVE SeqsUpTo(_, _)
SeqsUpTo(S, n) ==
    IF n = 0 THEN { <<>> }
    ELSE LET shorter == SeqsUpTo(S, n - 1)
         IN  shorter \cup { Append(s, x) : s \in shorter, x \in S }

DnsLists == SeqsUpTo(DnsEntries, MaxDns)

\* The DNS list of the runs that vary the pool: "not-an-ip", "8.8.8.8",
\* "1.1.1.1".
DnsSample == << <<-1>>, <<8, 8, 8, 8>>, <<1, 1, 1, 1>> >>

\* A DHCP option is a (name, value) pair; the bare options "end" and "pad"
\* are strings, written here as a pair whose name is the string.
Options ==
    { [name |-> "message-type", value |-> v] : v \in {1, 2, 3, 5, 8} }
    \cup { [name |-> "lease_time", value |-> v] : v \in {1, 3} }
    \cup { [name |-> "end", value |-> 0] }

EndOption == [name |-> "end", value |-> 0]

\* Option lists as far as process_packet reads them: the first option,
\* or none at all.
OptionLists == { <<>> } \cup { <<o>> : o \in Options }

\* scapy's mac2str: the 6 bytes of a colon-separated hexadecimal string.
mac2str(mac) == [i \in 1..6 |-> 16 * mac[2 * i - 1] + mac[2 * i]]

NoDhcpFrame ==
    [dhcp |-> FALSE, options |-> <<>>, src |-> MacA, xid |-> 17,
     chaddr |-> mac2str(MacA)]

\* Frames the capture filter lets through: whatever a client sends, the
\* responder's own Offers and Acks, and UDP traffic without a DHCP layer.
ClientFrames ==
    { [dhcp |-> TRUE, options |-> o, src |-> m, xid |-> x, chaddr |-> mac2str(m)] :
        o \in OptionLists, m \in ClientMacs, x \in Xids }

OwnFrames ==
    { [dhcp |-> TRUE, options |-> <<[name |-> "message-type", value |-> v], EndOption>>,
       src |-> IfaceMac, xid |-> x, chaddr |-> mac2str(MacA)] : v \in {2, 5}, x \in Xids }

Frames == ClientFrames \cup OwnFrames \cup { NoDhcpFrame }

\* The frames of the runs that vary the DNS list: Discovers and Requests.
DnsRunFrames ==
    { [dhcp |-> TRUE, options |-> <<[name |-> "message-type", value |-> v], EndOption>>,
       src |-> m, xid |-> 17, chaddr |-> mac2str(m)] : v \in {1, 3}, m \in ClientMacs }

---------------------------------------------------------------------------
(* Pure functions *)

RECURSIVE Pow2(_)
Pow2(n) == IF n = 0 THEN 1 ELSE 2 * Pow2(n - 1)

\* Mutant of hosts: the configured gateway is left out of the list.
hosts_without_gateway(cidr) ==
    LET a      == cidr.addr
        size   == Pow2(32 - cidr.prefixlen)
        net    == a[4] - (a[4] % size)
        first  == IF cidr.prefixlen >= 31 THEN net ELSE net + 1
        last   == IF cidr.prefixlen >= 31 THEN net + size - 1 ELSE net + size - 2
        all    == [i \in 1..(last - first + 1) |-> <<a[1], a[2], a[3], first + i - 1>>]
    IN  SelectSeq(all, LAMBDA x : x # gateway)

\* ipaddress.ip_network(ip_pool, strict=False).hosts(), as strings, for
\* prefix lengths 24..32 (the mask then touches the last part only).
\* strict=False clears the host bits; a /31 keeps both addresses, a /32 its
\* single address, every other network drops its first and last address.
hosts(cidr) ==
    LET a      == cidr.addr
        size   == Pow2(32 - cidr.prefixlen)
        net    == a[4] - (a[4] % size)
        first  == IF cidr.prefixlen >= 31 THEN net ELSE net + 1
        last   == IF cidr.prefixlen >= 31 THEN net + size - 1 ELSE net + size - 2
    IN  [i \in 1..(last - first + 1) |-> <<a[1], a[2], a[3], first + i - 1>>]

\* Largest value socket.inet_aton accepts for the last of n parts; a single
\* part spans all 32 bits, which every number of the model fits.
LastPartMax(n) ==
    CASE n = 4 -> 255
      [] n = 3 -> 65535
      [] n = 2 -> 16777215
      [] OTHER -> 2147483647

\* socket.inet_aton(ip) does not raise: one to four numeric parts, every
\* part but the last at most 255, the last filling the remaining bytes.
inet_aton_ok(ip) ==
    /\ Len(ip) \in 1..4
    /\ \A i \in 1..Len(ip) : ip[i] >= 0
    /\ \A i \in 1..(Len(ip) - 1) : ip[i] <= 255
    /\ ip[Len(ip)] <= LastPartMax(Len(ip))

is_valid_ip(ip) == inet_aton_ok(ip)

\* [ip for ip in self.dns_servers if is_valid_ip(ip)]
valid_dns(dns) == SelectSeq(dns, is_valid_ip)

\* Mutant of name_server: the last valid entry (valid_dns[-1]).
name_server_last(dns, gw) ==
    IF valid_dns(dns) # <<>> THEN valid_dns(dns)[Len(valid_dns(dns))] ELSE gw

\* valid_dns[0] if valid_dns else self.gateway
name_server(dns, gw) == IF valid_dns(dns) # <<>> THEN valid_dns(dns)[1] ELSE gw

\* Mutant of BOOTP: xid is not passed and keeps its default, 0.
BOOTP_default_xid(transaction_id, yiaddr, client_mac) ==
    [ op     |-> 2,
      xid    |-> 0,
      yiaddr |-> yiaddr,
      siaddr |-> server_ip,
      chaddr |-> mac2str(client_mac) ]

\* BOOTP(op=2, xid=transaction_id, yiaddr=..., siaddr=self.server_ip,
\*       chaddr=mac2str(client_mac))
BOOTP(transaction_id, yiaddr, client_mac) ==
    [ op     |-> 2,
      xid    |-> transaction_id,
      yiaddr |-> yiaddr,
      siaddr |-> server_ip,
      chaddr |-> mac2str(client_mac) ]

\* The frame both handlers build: Ether / IP / UDP / BOOTP / DHCP.
reply(kind, transaction_id, yiaddr, client_mac) ==
    BOOTP(transaction_id, yiaddr, client_mac) @@
    [ eth_src      |-> IfaceMac,
      eth_dst      |-> BroadcastMac,
      ip_src       |-> server_ip,
      ip_dst       |-> Broadcast,
      sport        |-> 67,
      dport        |-> 68,
      message_type |-> kind,
      server_id    |-> server_ip,
      subnet_mask  |-> subnet_mask,
      router       |-> gateway,
      name_server  |-> name_server(dns_servers, gateway),
      lease_time   |-> lease_time ]

NoMac == <<>>
NoIp == <<>>

LogRecord(level, msg, mac, ip) ==
    [level |-> level, msg |-> msg, mac |-> mac, ip |-> ip]

\* packet[DHCP].options[0][1]: the value of a (name, value) pair, or the
\* second character of a bare option string, which equals no number (-1).
first_option_value(packet) ==
    IF packet.options[1].name \in {"end", "pad"} THEN -1
    ELSE packet.options[1].value

---------------------------------------------------------------------------
(* The configuration file and start-up *)

ConfigKeys ==
    {"interface", "ip_pool", "subnet_mask", "gateway", "dns_servers", "lease_time"}

\* A file with the DHCP section and its six keys. lease_time is the number
\* its text spells, or -1 for a text that spells no integer.
ConfigFile(cidr, dns) ==
    [ exists      |-> TRUE,
      section     |-> TRUE,
      keys        |-> ConfigKeys,
      ip_pool     |-> cidr,
      subnet_mask |-> <<255, 255, 255, 252>>,
      gateway     |-> <<192, 168, 50, 1>>,
      dns_servers |-> dns,
      lease_time  |-> DefaultLeaseTime ]

\* Mutant of load_config_raises: a lease_time that is no integer falls back
\* to a default (config.getint('DHCP', 'lease_time', fallback=300)).
load_config_raises_fallback(file) ==
    \/ ~file.exists
    \/ ~file.section
    \/ file.keys # ConfigKeys

\* load_config raises: config.read skips a missing file, config.get raises
\* NoSectionError or NoOptionError, config.getint raises ValueError.
load_config_raises(file) ==
    \/ ~file.exists
    \/ ~file.section
    \/ file.keys # ConfigKeys
    \/ file.lease_time < 0

\* ipaddress.ip_network(ip_pool, strict=False) raises ValueError unless the
\* text is four parts of 0..255 and a prefix length of 0..32.
ip_network_raises(cidr) ==
    \/ Len(cidr.addr) # 4
    \/ \E i \in DOMAIN cidr.addr : cidr.addr[i] \notin 0..255
    \/ cidr.prefixlen \notin 0..32

\* The fields of a RogueDHCPServer that is not constructed.
Unset == <<>>

\* except Exception as e: logger.error(f"Error: {e}"); exit(1)
main_except(lg, msg) ==
    /\ log' = Append(lg, LogRecord("ERROR", msg, NoMac, NoIp))
    /\ pc' = "exited"
    /\ exit_code' = 1

\* __main__ up to server.start(): load_config, then RogueDHCPServer(...).
main ==
    /\ pc = "boot"
    /\ UNCHANGED <<config_file, link_up, sent, captured, nDiscover, nRequest, seen>>
    /\ IF load_config_raises(config_file)
       THEN /\ main_except(log, "Error: configuration")
            /\ fault' = "config"
            /\ UNCHANGED <<ip_pool, subnet_mask, gateway, dns_servers, lease_time,
                           server_ip, available_ips, allocated_ips>>
       ELSE IF ip_network_raises(config_file.ip_pool)
       THEN /\ main_except(log, "Error: address pool")
            /\ fault' = "config"
            /\ UNCHANGED <<ip_pool, subnet_mask, gateway, dns_servers, lease_time,
                           server_ip, available_ips, allocated_ips>>
       ELSE /\ ip_pool' = config_file.ip_pool
            /\ subnet_mask' = config_file.subnet_mask
            /\ gateway' = config_file.gateway
            /\ dns_servers' = config_file.dns_servers
            /\ lease_time' = config_file.lease_time
            /\ server_ip' = config_file.gateway
            /\ allocated_ips' = <<>>
            /\ available_ips' = hosts(config_file.ip_pool)
            /\ pc' = "constructed"
            /\ UNCHANGED <<log, exit_code, fault>>

---------------------------------------------------------------------------
(* Initial state: a RogueDHCPServer constructed from a configuration *)

Constructed(cidr, dns) ==
    /\ config_file = ConfigFile(cidr, dns)
    /\ ip_pool = cidr
    /\ subnet_mask \in SubnetMasks
    /\ gateway \in Gateways
    /\ dns_servers = dns
    /\ lease_time = DefaultLeaseTime
    /\ server_ip = gateway
    /\ allocated_ips = <<>>
    /\ available_ips = hosts(ip_pool)
    /\ sent = <<>>
    /\ log = <<>>
    /\ pc = "constructed"
    /\ exit_code = -1
    /\ captured = 0
    /\ nDiscover = 0
    /\ nRequest = 0
    /\ link_up = TRUE
    /\ fault = "none"
    /\ seen = {}

Init == \E cidr \in IpPools : Constructed(cidr, DnsSample)

\* Every DNS list, over the one-address pool.
InitDns == \E dns \in DnsLists :
              Constructed([addr |-> <<192, 168, 50, 5>>, prefixlen |-> 32], dns)

config == <<ip_pool, subnet_mask, gateway, dns_servers, lease_time, server_ip>>

---------------------------------------------------------------------------
(* Operations *)

\* RogueDHCPServer.start up to the call of sniff: six log records.
start ==
    /\ pc = "constructed"
    /\ log' = log \o << LogRecord("INFO", "Starting rogue DHCP server", NoMac, NoIp),
                        LogRecord("INFO", "Server IP", NoMac, server_ip),
                        LogRecord("INFO", "IP Pool", NoMac, ip_pool.addr),
                        LogRecord("INFO", "Gateway", NoMac, gateway),
                        LogRecord("INFO", "DNS Servers", NoMac, NoIp),
                        LogRecord("INFO", "Lease Time", NoMac, NoIp) >>
    /\ pc' = "sniffing"
    /\ UNCHANGED <<config, available_ips, allocated_ips, sent, exit_code,
                   captured, nDiscover, nRequest, config_file, link_up, fault, seen>>

\* Mutant of sniff_raises: the exception is swallowed and capture goes on
\* (a try/except around the call that passes).
sniff_raises_pass(kind, lg, msg) ==
    /\ fault' = kind
    /\ log' = lg
    /\ UNCHANGED <<pc, exit_code>>

\* An exception raised under sniff, in the callback or by the capture. No
\* handler and not start catches it. Either it leaves sniff and start and
\* reaches __main__'s except clause, or the capture library reports it
\* itself, closes its socket and returns, and the process ends normally.
sniff_raises(kind, lg, msg) ==
    /\ fault' = kind
    /\ \/ main_except(lg, msg)
       \/ /\ log' = lg
          /\ pc' = "exited"
          /\ exit_code' = 0

\* sendp(frame, iface=self.interface, verbose=0) after the log records of
\* before; after is the log when the send returns.
sendp(frame, before, after) ==
    IF link_up
    THEN /\ sent' = Append(sent, frame)
         /\ log' = after
         /\ UNCHANGED <<pc, exit_code, fault>>
    ELSE /\ sent' = sent
         /\ sniff_raises("send", before, "Error: send failed")

\* Mutant of pop0: nothing is removed (offered_ip = self.available_ips[0]).
pop0_keeps(pool) == pool

\* Mutant of pop0: the last address is removed (pop() for pop(0)).
pop0_last(pool) == SubSeq(pool, 1, Len(pool) - 1)

\* What self.available_ips.pop(0) leaves in the list.
pop0(pool) == Tail(pool)

\* Mutant of DictSet: the table is replaced by the new entry alone.
DictReset(d, k, v) == [x \in {k} |-> v]

\* Mutant of DictSet: an existing entry is kept
\* (self.allocated_ips.setdefault(client_mac, offered_ip)).
DictKeep(d, k, v) == [x \in (DOMAIN d) \cup {k} |-> IF x \in DOMAIN d THEN d[x] ELSE v]

\* self.allocated_ips[client_mac] = offered_ip
DictSet(d, k, v) == [x \in (DOMAIN d) \cup {k} |-> IF x = k THEN v ELSE d[x]]

\* Mutant of handle_dhcp_discover: the client is identified by the frame's
\* BOOTP chaddr field (client_mac = str2mac(packet[BOOTP].chaddr[:6])).
handle_dhcp_discover_chaddr(packet) ==
    IF packet.dhcp /\ first_option_value(packet) = 1
    THEN LET client_mac     == [i \in 1..12 |->
                                  IF i % 2 = 1 THEN packet.chaddr[(i + 1) \div 2] \div 16
                                  ELSE packet.chaddr[i \div 2] % 16]
             transaction_id == packet.xid
             received       == LogRecord("INFO", "Received DHCP Discover", client_mac, NoIp)
         IN  IF available_ips # <<>>
             THEN LET offered_ip == Head(available_ips)
                      offering   == log \o << received,
                                    LogRecord("INFO", "Offering IP", client_mac, offered_ip) >>
                  IN  /\ available_ips' = pop0(available_ips)
                      /\ allocated_ips' = DictSet(allocated_ips, client_mac, offered_ip)
                      /\ sendp(reply("offer", transaction_id, offered_ip, client_mac),
                               offering, offering)
             ELSE /\ log' = Append(log, received)
                  /\ UNCHANGED <<available_ips, allocated_ips, sent, pc, exit_code, fault>>
    ELSE UNCHANGED <<available_ips, allocated_ips, sent, log, pc, exit_code, fault>>

handle_dhcp_discover(packet) ==
    IF packet.dhcp /\ first_option_value(packet) = 1
    THEN LET client_mac     == packet.src
             transaction_id == packet.xid
             received       == LogRecord("INFO", "Received DHCP Discover", client_mac, NoIp)
         IN  IF available_ips # <<>>
             THEN LET offered_ip == Head(available_ips)
                      offering   == log \o << received,
                                    LogRecord("INFO", "Offering IP", client_mac, offered_ip) >>
                  IN  /\ available_ips' = pop0(available_ips)
                      /\ allocated_ips' = DictSet(allocated_ips, client_mac, offered_ip)
                      /\ sendp(reply("offer", transaction_id, offered_ip, client_mac),
                               offering, offering)
             ELSE /\ log' = Append(log, received)
                  /\ UNCHANGED <<available_ips, allocated_ips, sent, pc, exit_code, fault>>
    ELSE UNCHANGED <<available_ips, allocated_ips, sent, log, pc, exit_code, fault>>

\* Mutant of handle_dhcp_request: no test that the hardware address is in
\* the table (self.allocated_ips.get(client_mac, self.server_ip)).
handle_dhcp_request_get(packet) ==
    IF packet.dhcp /\ first_option_value(packet) = 3
    THEN LET client_mac     == packet.src
             transaction_id == packet.xid
             assigned_ip    == IF client_mac \in DOMAIN allocated_ips
                               THEN allocated_ips[client_mac] ELSE server_ip
             received       == Append(log, LogRecord("INFO", "Received DHCP Request", client_mac, assigned_ip))
         IN  /\ sendp(reply("ack", transaction_id, assigned_ip, client_mac), received,
                      Append(received, LogRecord("INFO", "Sent DHCP Ack", client_mac, assigned_ip)))
             /\ UNCHANGED <<available_ips, allocated_ips>>
    ELSE UNCHANGED <<available_ips, allocated_ips, sent, log, pc, exit_code, fault>>

\* Mutant of handle_dhcp_request: the entry is consumed by the Ack
\* (self.allocated_ips.pop(client_mac)).
handle_dhcp_request_pop(packet) ==
    IF packet.dhcp /\ first_option_value(packet) = 3
    THEN LET client_mac     == packet.src
             transaction_id == packet.xid
         IN  IF client_mac \in DOMAIN allocated_ips
             THEN LET assigned_ip == allocated_ips[client_mac]
                      received    == Append(log, LogRecord("INFO", "Received DHCP Request", client_mac, assigned_ip))
                  IN  /\ sendp(reply("ack", transaction_id, assigned_ip, client_mac), received,
                               Append(received, LogRecord("INFO", "Sent DHCP Ack", client_mac, assigned_ip)))
                      /\ allocated_ips' = [m \in (DOMAIN allocated_ips) \ {client_mac} |-> allocated_ips[m]]
                      /\ UNCHANGED available_ips
             ELSE UNCHANGED <<available_ips, allocated_ips, sent, log, pc, exit_code, fault>>
    ELSE UNCHANGED <<available_ips, allocated_ips, sent, log, pc, exit_code, fault>>

handle_dhcp_request(packet) ==
    IF packet.dhcp /\ first_option_value(packet) = 3
    THEN LET client_mac     == packet.src
             transaction_id == packet.xid
         IN  /\ IF client_mac \in DOMAIN allocated_ips
                THEN LET assigned_ip == allocated_ips[client_mac]
                         received    == Append(log, LogRecord("INFO", "Received DHCP Request", client_mac, assigned_ip))
                     IN  sendp(reply("ack", transaction_id, assigned_ip, client_mac), received,
                               Append(received, LogRecord("INFO", "Sent DHCP Ack", client_mac, assigned_ip)))
                ELSE UNCHANGED <<sent, log, pc, exit_code, fault>>
             /\ UNCHANGED <<available_ips, allocated_ips>>
    ELSE UNCHANGED <<available_ips, allocated_ips, sent, log, pc, exit_code, fault>>

\* A frame whose option list starts with the message-type option of value t.
HasType(packet, t) ==
    /\ packet.dhcp
    /\ packet.options # <<>>
    /\ packet.options[1] = [name |-> "message-type", value |-> t]

IsDiscover(packet) == HasType(packet, 1)
IsRequest(packet) == HasType(packet, 3)

\* The counters of captured frames, kept for the properties below.
Count(packet) ==
    /\ captured' = captured + 1
    /\ nDiscover' = nDiscover + (IF IsDiscover(packet) THEN 1 ELSE 0)
    /\ nRequest' = nRequest + (IF IsRequest(packet) THEN 1 ELSE 0)
    /\ seen' = IF IsDiscover(packet) /\ packet.chaddr # mac2str(packet.src)
               THEN seen \cup { <<packet.src, packet.chaddr>> }
               ELSE seen

\* Mutant of process_packet: no test that the frame has a DHCP layer, so
\* packet[DHCP] raises IndexError on a frame without one.
process_packet_any_layer(packet) ==
    /\ pc = "sniffing"
    /\ Count(packet)
    /\ UNCHANGED <<config, config_file, link_up>>
    /\ IF ~packet.dhcp \/ packet.options = <<>>
       THEN /\ sniff_raises("index", log, "Error: index error")
            /\ UNCHANGED <<available_ips, allocated_ips, sent>>
       ELSE LET message_type == first_option_value(packet)
            IN  IF message_type = 1
                THEN handle_dhcp_discover(packet)
                ELSE IF message_type = 3
                THEN handle_dhcp_request(packet)
                ELSE UNCHANGED <<available_ips, allocated_ips, sent, log,
                                 pc, exit_code, fault>>

\* process_packet, called by sniff for one captured frame. Indexing an
\* empty option list raises IndexError.
process_packet(packet) ==
    /\ pc = "sniffing"
    /\ Count(packet)
    /\ UNCHANGED <<config, config_file, link_up>>
    /\ IF ~packet.dhcp
       THEN UNCHANGED <<available_ips, allocated_ips, sent, log, pc, exit_code, fault>>
       ELSE IF packet.options = <<>>
       THEN /\ sniff_raises("index", log, "Error: list index out of range")
            /\ UNCHANGED <<available_ips, allocated_ips, sent>>
       ELSE LET message_type == first_option_value(packet)
            IN  IF message_type = 1
                THEN handle_dhcp_discover(packet)
                ELSE IF message_type = 3
                THEN handle_dhcp_request(packet)
                ELSE UNCHANGED <<available_ips, allocated_ips, sent, log,
                                 pc, exit_code, fault>>

\* sniff(..., prn=self.process_packet): one captured frame.
sniff == captured < MaxFrames /\ \E packet \in Frames : process_packet(packet)

Next == start \/ sniff

Spec == Init /\ [][Next]_vars

sniffDns == captured < MaxFrames /\ \E packet \in DnsRunFrames : process_packet(packet)

NextDns == start \/ sniffDns

SpecDns == InitDns /\ [][NextDns]_vars

---------------------------------------------------------------------------
(* Vocabulary of the properties *)

InitialPool == hosts(ip_pool)
H == Len(InitialPool)
SeqRange(q) == { q[i] : i \in DOMAIN q }

OfferIdx == { i \in DOMAIN sent : sent[i].message_type = "offer" }
AckIdx == { i \in DOMAIN sent : sent[i].message_type = "ack" }
NumOffers == Cardinality(OfferIdx)
Min(a, b) == IF a <= b THEN a ELSE b

\* The step appends exactly the frame f to the frames sent.
Sends(f) == sent' = Append(sent, f)

\* Index of the last Offer sent to the raw hardware address c, 0 if none.
LastOfferTo(c) ==
    LET idx == { i \in OfferIdx : sent[i].chaddr = c }
    IN  IF idx = {} THEN 0 ELSE CHOOSE i \in idx : \A j \in idx : j <= i

---------------------------------------------------------------------------
(* C1 *)

\* C1: while every captured frame is a Discover, the number of Offers sent
\* is the number of Discovers captured, up to the pool's H addresses and no
\* further, and the responder is still capturing (no error was raised); in
\* every state at most H Offers have been sent; and a Discover step sends
\* one Offer when fewer than H Offers were sent before it, and none after.
C1_ExactlyHOffers ==
    /\ [](NumOffers <= H)
    /\ []((pc = "sniffing" /\ captured = nDiscover) => NumOffers = Min(nDiscover, H))
    /\ [](captured = nDiscover => pc # "exited")
    /\ [][\A p \in Frames : (IsDiscover(p) /\ process_packet(p)) =>
            /\ pc' = "sniffing"
            /\ IF NumOffers < H
               THEN \E f \in SeqRange(sent') : f.message_type = "offer" /\ Sends(f)
               ELSE sent' = sent]_vars

\* Witness of C1: three Discovers were captured, and nothing else, over a
\* pool of two addresses: two Offers went out and the third got none.
C1_Witness ==
    /\ H = 2 /\ captured = 3 /\ nDiscover = 3
    /\ NumOffers = 2 /\ Len(sent) = 2 /\ pc = "sniffing"

---------------------------------------------------------------------------
(* C2 *)

\* C2: every address carried in an Offer is one of the host addresses of
\* the configured CIDR, and no two Offers carry the same address (so none
\* reaches two hardware addresses).
C2_OfferedFromPoolOnce ==
    /\ \A i \in OfferIdx : sent[i].yiaddr \in SeqRange(InitialPool)
    /\ \A i, j \in OfferIdx : sent[i].yiaddr = sent[j].yiaddr => i = j

\* Witness of C2: Offers went to two different hardware addresses.
C2_Witness ==
    \E i, j \in OfferIdx :
        /\ sent[i].chaddr = mac2str(MacA)
        /\ sent[j].chaddr = mac2str(MacB)

---------------------------------------------------------------------------
(* C3 *)

\* C3 as claimed: every Ack follows an Offer to the same hardware address
\* that carries the Ack's address and the Ack's transaction id.
C3_AckEchoesDiscover ==
    \A j \in AckIdx : \E i \in OfferIdx :
        /\ i < j
        /\ sent[i].chaddr = sent[j].chaddr
        /\ sent[i].yiaddr = sent[j].yiaddr
        /\ sent[i].xid = sent[j].xid

\* C3 amended: a Request from a hardware address that was sent an Offer
\* makes the responder send exactly one frame, an Ack to that hardware
\* address carrying the address of the latest Offer sent to it and the
\* transaction id of the Request itself.
C3_AckEchoesRequest ==
    [][\A p \in Frames :
         (IsRequest(p) /\ LastOfferTo(mac2str(p.src)) # 0 /\ process_packet(p)) =>
            \E f \in SeqRange(sent') :
                /\ Sends(f)
                /\ f.message_type = "ack"
                /\ f.chaddr = mac2str(p.src)
                /\ f.yiaddr = sent[LastOfferTo(mac2str(p.src))].yiaddr
                /\ f.xid = p.xid]_vars

\* Witness of C3: an Ack was sent whose transaction id no Offer to the same
\* hardware address carries.
C3_Witness ==
    \E j \in AckIdx :
        /\ \E i \in OfferIdx : i < j /\ sent[i].chaddr = sent[j].chaddr
        /\ \A i \in OfferIdx : sent[i].chaddr = sent[j].chaddr => sent[i].xid # sent[j].xid

---------------------------------------------------------------------------
(* C4 *)

\* C4: every frame sent is an Offer or an Ack (never a NAK), every Ack is
\* preceded by an Offer to the same hardware address, and a Request from a
\* hardware address that no Offer was sent to makes the responder send
\* nothing.
C4_AckOnlyAfterOffer ==
    /\ [](\A i \in DOMAIN sent : sent[i].message_type \in {"offer", "ack"})
    /\ [](\A j \in AckIdx :
            \E i \in OfferIdx : i < j /\ sent[i].chaddr = sent[j].chaddr)
    /\ [][\A p \in Frames :
            (IsRequest(p) /\ LastOfferTo(mac2str(p.src)) = 0 /\ process_packet(p))
               => sent' = sent]_vars

\* Witness of C4: Requests were captured from hardware addresses that were
\* never sent an Offer, and no reply went out.
C4_Witness == captured = 2 /\ nRequest = 2 /\ sent = <<>> /\ pc = "sniffing"

---------------------------------------------------------------------------
(* C5 *)

\* C5 as claimed: no step removes an entry of the allocation table or
\* changes the address an entry holds.
C5_EntriesNeverChange ==
    [][\A m \in DOMAIN allocated_ips :
         m \in DOMAIN allocated_ips' /\ allocated_ips'[m] = allocated_ips[m]]_vars

\* C5 amended: no step removes an entry of the allocation table, and an
\* entry changes only in a step that sends its hardware address an Offer:
\* the entry then holds the offered address, which was the first of the
\* pool.
C5_EntriesChangeOnlyByOffer ==
    [][\A m \in DOMAIN allocated_ips :
         /\ m \in DOMAIN allocated_ips'
         /\ allocated_ips'[m] # allocated_ips[m] =>
              /\ available_ips # <<>>
              /\ allocated_ips'[m] = Head(available_ips)
              /\ \E f \in SeqRange(sent') :
                    /\ Sends(f)
                    /\ f.message_type = "offer"
                    /\ f.chaddr = mac2str(m)
                    /\ f.yiaddr = allocated_ips'[m]]_vars

\* Witness of C5: one hardware address was sent two Offers with different
\* addresses, and its entry is the later address.
C5_Witness ==
    /\ MacA \in DOMAIN allocated_ips
    /\ \E i, j \in OfferIdx :
        /\ i < j
        /\ sent[i].chaddr = mac2str(MacA) /\ sent[j].chaddr = mac2str(MacA)
        /\ sent[i].yiaddr # sent[j].yiaddr
        /\ allocated_ips[MacA] = sent[j].yiaddr

---------------------------------------------------------------------------
(* C6 *)

AllocatedValues == { allocated_ips[m] : m \in DOMAIN allocated_ips }

\* C6: the allocation table holds at most H distinct addresses, each a host
\* address of the configured CIDR that is no longer in the pool, and no
\* address is held for two hardware addresses.
C6_TableWithinPool ==
    /\ Cardinality(AllocatedValues) <= H
    /\ AllocatedValues \subseteq SeqRange(InitialPool)
    /\ AllocatedValues \cap SeqRange(available_ips) = {}
    /\ \A m1, m2 \in DOMAIN allocated_ips :
          allocated_ips[m1] = allocated_ips[m2] => m1 = m2

\* Witness of C6: two hardware addresses hold an entry.
C6_Witness == Cardinality(DOMAIN allocated_ips) = 2 /\ available_ips = <<>>

---------------------------------------------------------------------------
(* C7 *)

\* C7: the pool is always a suffix of the ordered host list of the CIDR, and
\* every step leaves it unchanged or removes exactly its first element.
C7_PoolDepletes ==
    /\ [](\E k \in 0..H : available_ips = SubSeq(InitialPool, k + 1, H))
    /\ [][\/ available_ips' = available_ips
          \/ available_ips # <<>> /\ available_ips' = Tail(available_ips)]_vars

\* Witness of C7: the first of two addresses has left the pool.
C7_Witness ==
    H = 2 /\ available_ips = Tail(InitialPool) /\ Len(available_ips) = 1

---------------------------------------------------------------------------
(* C8 *)

ValidDnsIdx == { k \in DOMAIN dns_servers : is_valid_ip(dns_servers[k]) }

---------------------------------------------------------------------------
(* C9 *)

\* A frame without a DHCP layer, or one whose first option is the
\* message-type option with a value other than 1 and 3.
Ignorable(p) ==
    \/ ~p.dhcp
    \/ /\ p.options # <<>>
       /\ p.options[1].name = "message-type"
       /\ p.options[1].value \notin {1, 3}

\* C9: process_packet on a frame without a DHCP layer, or with a message
\* type other than 1 and 3, sends nothing, leaves the pool and the
\* allocation table as they were, and the responder keeps capturing.
C9_OtherTypesIgnored ==
    [][\A p \in Frames : (Ignorable(p) /\ process_packet(p)) =>
          UNCHANGED <<sent, available_ips, allocated_ips, pc>>]_vars

\* Witness of C9: the one frame captured so far was neither a Discover nor
\* a Request; nothing was sent and the responder is capturing.
C9_Witness ==
    /\ captured = 1 /\ nDiscover = 0 /\ nRequest = 0
    /\ sent = <<>> /\ pc = "sniffing" /\ available_ips = InitialPool

---------------------------------------------------------------------------
(* C10 *)

ReceivedDiscover(m) == LogRecord("INFO", "Received DHCP Discover", m, NoIp)

\* C10 as claimed: a Discover handled while the pool is empty, and a
\* Request from a hardware address absent from the allocation table, leave
\* the log and the frames sent unchanged.
C10_NoOpsLeaveNoTrace ==
    [][\A p \in Frames :
         ( /\ \/ IsDiscover(p) /\ available_ips = <<>>
              \/ IsRequest(p) /\ p.src \notin DOMAIN allocated_ips
           /\ process_packet(p) )
         => UNCHANGED <<log, sent>>]_vars

\* C10 amended: a Request from a hardware address absent from the
\* allocation table leaves the log and the frames sent unchanged; a
\* Discover handled while the pool is empty sends nothing and writes one
\* log record, "Received DHCP Discover" with the hardware address.
C10_ExhaustionLogsReceipt ==
    [][\A p \in Frames :
         /\ (IsRequest(p) /\ p.src \notin DOMAIN allocated_ips /\ process_packet(p))
               => UNCHANGED <<log, sent>>
         /\ (IsDiscover(p) /\ available_ips = <<>> /\ process_packet(p))
               => sent' = sent /\ log' = Append(log, ReceivedDiscover(p.src))]_vars

\* Witness of C10: the pool is empty, the last log record is the receipt
\* of a Discover (no Offer followed it), and a Request has been captured
\* though no Ack was sent.
C10_Witness ==
    /\ available_ips = <<>>
    /\ log[Len(log)] = ReceivedDiscover(MacB)
    /\ nRequest > 0 /\ AckIdx = {}

---------------------------------------------------------------------------
(* C11 *)

StartupPool == [addr |-> <<192, 168, 50, 0>>, prefixlen |-> 30]
OkFile == ConfigFile(StartupPool, DnsSample)

\* The configuration files of the start-up runs: well-formed ones, and one
\* for each way the file can be wrong.
StartupFiles ==
    { ConfigFile(cidr, DnsSample) : cidr \in IpPools }
    \cup { [OkFile EXCEPT !.exists = FALSE, !.section = FALSE, !.keys = {}],
           [OkFile EXCEPT !.section = FALSE, !.keys = {}],
           [OkFile EXCEPT !.lease_time = -1],
           [OkFile EXCEPT !.ip_pool = [addr |-> <<192, 168, 50, 0>>, prefixlen |-> 33]],
           [OkFile EXCEPT !.ip_pool = [addr |-> <<192, 168, 50, 256>>, prefixlen |-> 30]],
           [OkFile EXCEPT !.ip_pool = [addr |-> <<192, 168>>, prefixlen |-> 30]] }
    \cup { [OkFile EXCEPT !.keys = ConfigKeys \ {k}] : k \in ConfigKeys }

\* The process before __main__ has run: no server object yet.
InitStartup ==
    /\ config_file \in StartupFiles
    /\ ip_pool = Unset /\ subnet_mask = Unset /\ gateway = Unset
    /\ dns_servers = Unset /\ lease_time = Unset /\ server_ip = Unset
    /\ available_ips = Unset /\ allocated_ips = Unset
    /\ sent = <<>> /\ log = <<>>
    /\ pc = "boot" /\ exit_code = -1
    /\ captured = 0 /\ nDiscover = 0 /\ nRequest = 0
    /\ link_up = TRUE /\ fault = "none" /\ seen = {}

NextStartup == main \/ start \/ sniffDns
SpecStartup == InitStartup /\ [][NextStartup]_vars

\* The start-up errors as the specification lists them.
StartupError(file) ==
    \/ ~file.exists
    \/ ~file.section
    \/ \E k \in ConfigKeys : k \notin file.keys
    \/ file.lease_time < 0
    \/ ip_network_raises(file.ip_pool)

\* C11: with a configuration file that is missing, lacks the DHCP section or
\* one of the six keys, has a lease_time that is no integer or an ip_pool
\* that is no CIDR network, the process never constructs a server or
\* captures: its one step logs an error and exits with code 1, and no frame
\* is captured or sent before.
C11_StartupErrorsFatal ==
    /\ [](StartupError(config_file) =>
            /\ pc \in {"boot", "exited"}
            /\ captured = 0
            /\ sent = <<>>
            /\ pc = "exited" =>
                 /\ exit_code = 1
                 /\ Len(log) = 1
                 /\ log[1].level = "ERROR")
    /\ [][(pc = "boot" /\ StartupError(config_file)) =>
            (pc' = "exited" /\ exit_code' = 1)]_vars

C11_Witness ==
    /\ ip_network_raises(config_file.ip_pool)
    /\ pc = "exited"
    /\ exit_code = 1
    /\ log # <<>>

---------------------------------------------------------------------------
(* C12 *)

\* The interface stops accepting frames: from now on sendp raises OSError.
link_down ==
    /\ pc \in {"constructed", "sniffing"}
    /\ link_up
    /\ link_up' = FALSE
    /\ UNCHANGED <<config, available_ips, allocated_ips, sent, log, pc, exit_code,
                   captured, nDiscover, nRequest, config_file, fault, seen>>

\* sniff itself raises: the interface does not exist, the capture socket
\* cannot be opened or read.
capture_error ==
    /\ pc = "sniffing"
    /\ sniff_raises("capture", log, "Error: capture failed")
    /\ UNCHANGED <<config, available_ips, allocated_ips, sent,
                   captured, nDiscover, nRequest, config_file, link_up, seen>>

NextFault == start \/ sniffDns \/ link_down \/ capture_error
SpecFault == Init /\ [][NextFault]_vars

RuntimeFault == fault \in {"send", "capture"}
LoggedExit1 == exit_code = 1 /\ log # <<>> /\ log[Len(log)].level = "ERROR"

---------------------------------------------------------------------------
(* C13 *)

\* C13: once capture has started and while sends succeed, no captured frame
\* ends the capture: every step of the responder leaves it capturing.
C13_LoopNeverEnds ==
    [][(pc = "sniffing" /\ link_up) => (pc' = "sniffing" /\ exit_code' = -1)]_vars

---------------------------------------------------------------------------
(* C14 *)

\* The frame handed to a handler: it has a DHCP layer and a first option
\* whose value is 1 or 3.
Dispatched(p) ==
    /\ p.dhcp
    /\ p.options # <<>>
    /\ first_option_value(p) \in {1, 3}

\* C14: every reply a handler sends carries the transaction id of the frame
\* being handled, an Offer for value 1 and an Ack for value 3; every reply
\* sent has operation 2 (reply) and the configured gateway as its server
\* address.
C14_RepliesEchoXid ==
    /\ [](\A i \in DOMAIN sent :
            /\ sent[i].op = 2
            /\ sent[i].siaddr = gateway
            /\ sent[i].siaddr = config_file.gateway)
    /\ [][\A p \in Frames :
            (Dispatched(p) /\ sent' # sent /\ process_packet(p)) =>
                /\ Len(sent') = Len(sent) + 1
                /\ sent'[Len(sent')].xid = p.xid
                /\ sent'[Len(sent')].message_type =
                       (IF first_option_value(p) = 1 THEN "offer" ELSE "ack")]_vars

C14_Witness ==
    \E i \in OfferIdx, j \in AckIdx :
        /\ sent[i].xid = 17
        /\ sent[j].xid = 42
        /\ sent[i].chaddr = sent[j].chaddr
        /\ i < j

---------------------------------------------------------------------------
(* C15 *)

\* C15: a frame whose first option is not the message-type option with
\* value 1 or 3 causes no reply, no pool removal and no table change.
C15_OnlyMessageTypeTriggers ==
    [][\A p \in Frames :
         (p.dhcp /\ ~IsDiscover(p) /\ ~IsRequest(p) /\ process_packet(p)) =>
             UNCHANGED <<sent, available_ips, allocated_ips>>]_vars

---------------------------------------------------------------------------
(* C16 *)

\* C16: a Discover from a hardware address that has a table entry, handled
\* while the pool is not empty, removes the first pool address and makes it
\* the entry of that hardware address, with the log records of any other
\* Offer and no other entry touched; the replaced address is then in neither
\* the pool nor the table. Every Ack carries the address of the most recent
\* Offer sent before it to its hardware address, and an address offered
\* earlier to a hardware address and since replaced is in neither the pool
\* nor the table.
C16_ReallocationReplaces ==
    /\ [][\A p \in Frames :
            (/\ IsDiscover(p)
             /\ p.src \in DOMAIN allocated_ips
             /\ available_ips # <<>>
             /\ process_packet(p)) =>
                /\ available_ips' = Tail(available_ips)
                /\ allocated_ips' = [allocated_ips EXCEPT ![p.src] = Head(available_ips)]
                /\ allocated_ips'[p.src] # allocated_ips[p.src]
                /\ allocated_ips[p.src] \notin SeqRange(available_ips')
                /\ allocated_ips[p.src] \notin { allocated_ips'[m] : m \in DOMAIN allocated_ips' }
                /\ log' = log \o << ReceivedDiscover(p.src),
                                    LogRecord("INFO", "Offering IP", p.src, Head(available_ips)) >>
                /\ sent'[Len(sent')].yiaddr = Head(available_ips)]_vars
    /\ [](\A j \in AckIdx :
            \E i \in OfferIdx :
                /\ i < j
                /\ sent[i].chaddr = sent[j].chaddr
                /\ sent[i].yiaddr = sent[j].yiaddr
                /\ \A k \in OfferIdx :
                       (sent[k].chaddr = sent[j].chaddr /\ k < j) => k <= i)
    /\ [](\A i \in OfferIdx :
            i # LastOfferTo(sent[i].chaddr) =>
                /\ sent[i].yiaddr \notin SeqRange(available_ips)
                /\ sent[i].yiaddr \notin AllocatedValues)

\* Two Offers to one hardware address, then an Ack with the address of the
\* second.
C16_Witness ==
    \E i \in OfferIdx, k \in OfferIdx, j \in AckIdx :
        /\ i < k /\ k < j
        /\ sent[i].chaddr = mac2str(MacA)
        /\ sent[k].chaddr = mac2str(MacA)
        /\ sent[j].chaddr = mac2str(MacA)
        /\ sent[j].yiaddr = sent[k].yiaddr
        /\ sent[j].yiaddr # sent[i].yiaddr
        /\ nDiscover = 2

---------------------------------------------------------------------------
(* C17 *)

Pool29 == [addr |-> <<192, 168, 50, 0>>, prefixlen |-> 29]

\* The configured networks of the pool runs: six addresses with the gateway
\* among them, and two with host bits set in the configured address.
PoolCidrs ==
    { Pool29,
      [addr |-> <<192, 168, 50, 5>>, prefixlen |-> 30],
      [addr |-> <<192, 168, 50, 5>>, prefixlen |-> 32] }

PoolRunFrames ==
    { [dhcp |-> TRUE, options |-> << [name |-> "message-type", value |-> 1] >>,
       src |-> m, xid |-> 17, chaddr |-> mac2str(m)] : m \in ClientMacs }
    \cup { [dhcp |-> TRUE, options |-> << [name |-> "message-type", value |-> 3] >>,
            src |-> MacA, xid |-> 42, chaddr |-> mac2str(MacA)] }

InitPool == \E cidr \in PoolCidrs : Constructed(cidr, DnsSample)
sniffPool == captured < MaxPoolFrames /\ \E packet \in PoolRunFrames : process_packet(packet)
NextPool == start \/ sniffPool
SpecPool == InitPool /\ [][NextPool]_vars

\* The usable host addresses of a network of prefix length 24..32: the
\* addresses that agree with the configured one outside the host bits, but
\* for the first (network) and last (broadcast) of them when the network
\* has more than two addresses.
UsableHosts(cidr) ==
    LET size  == Pow2(32 - cidr.prefixlen)
        block == { x \in 0..255 : x \div size = cidr.addr[4] \div size }
        inner == IF cidr.prefixlen >= 31 THEN block
                 ELSE { x \in block : (x - 1) \in block /\ (x + 1) \in block }
    IN  { <<cidr.addr[1], cidr.addr[2], cidr.addr[3], x>> : x \in inner }

\* The k-th usable host address in ascending order.
KthHost(cidr, k) ==
    CHOOSE h \in UsableHosts(cidr) :
        Cardinality({ g \in UsableHosts(cidr) : g[4] < h[4] }) = k - 1

Offers == SelectSeq(sent, LAMBDA f : f.message_type = "offer")

\* C17: the pool starts as the ascending list of every usable host address
\* of the configured network, the gateway included when it is one of them;
\* the k-th Offer carries the k-th address of that list and the pool is the
\* rest of it. Over 192.168.50.0/29 with gateway 192.168.50.1 the Offers
\* carry .1, .2, .3, .4, .5, .6 in that order.
C17_OffersInPoolOrder ==
    /\ Len(Offers) <= Cardinality(UsableHosts(ip_pool))
    /\ \A k \in 1..Len(Offers) : Offers[k].yiaddr = KthHost(ip_pool, k)
    /\ Len(available_ips) = Cardinality(UsableHosts(ip_pool)) - Len(Offers)
    /\ \A k \in 1..Len(available_ips) :
           available_ips[k] = KthHost(ip_pool, Len(Offers) + k)
    /\ (gateway \in UsableHosts(ip_pool) /\ Len(Offers) = 0) =>
           gateway \in SeqRange(available_ips)
    /\ ip_pool = Pool29 =>
           /\ gateway = <<192, 168, 50, 1>>
           /\ Len(Offers) <= 6
           /\ \A k \in 1..Len(Offers) : Offers[k].yiaddr = <<192, 168, 50, k>>

C17_Witness ==
    /\ ip_pool = Pool29
    /\ Len(Offers) = 6
    /\ Offers[1].yiaddr = gateway
    /\ Offers[6].yiaddr = <<192, 168, 50, 6>>
    /\ available_ips = <<>>
    /\ captured = MaxPoolFrames

---------------------------------------------------------------------------
(* C18 *)

\* C18: handling a frame as a Request, whether or not its hardware address
\* has a table entry, leaves the pool and the allocation table as they
\* were; the Ack it sends, if any, carries the entry, which is still the
\* entry afterwards.
C18_RequestChangesNothing ==
    [][\A p \in Frames :
         (/\ p.dhcp
          /\ p.options # <<>>
          /\ first_option_value(p) = 3
          /\ process_packet(p)) =>
             /\ UNCHANGED <<available_ips, allocated_ips>>
             /\ sent' # sent =>
                  /\ p.src \in DOMAIN allocated_ips'
                  /\ sent'[Len(sent')].yiaddr = allocated_ips'[p.src]]_vars

\* The pool is exhausted; three Requests were handled, one of them from a
\* hardware address without an entry, the other two acked alike.
C18_Witness ==
    /\ available_ips = <<>>
    /\ nRequest = 3
    /\ Cardinality(AckIdx) = 2
    /\ \A j \in AckIdx : sent[j].message_type = "ack" /\ sent[j].yiaddr = allocated_ips[MacA]
    /\ DOMAIN allocated_ips = {MacA}
    /\ Len(sent) = 3

---------------------------------------------------------------------------
(* C19 *)

\* Discover and Request frames whose BOOTP chaddr is not the raw form of
\* their link-layer source: it is that of another client or of a host that
\* sends nothing.
ChaddrRunFrames ==
    { f \in { [dhcp |-> TRUE, options |-> << [name |-> "message-type", value |-> v] >>,
                src |-> m, xid |-> 17, chaddr |-> mac2str(c)] :
                 v \in {1, 3}, m \in ClientMacs, c \in {MacA, MacB, MacC} } :
        f.chaddr # mac2str(f.src) }

InitChaddr == Constructed([addr |-> <<192, 168, 50, 0>>, prefixlen |-> 29], DnsSample)
sniffChaddr == captured < MaxFrames /\ \E packet \in ChaddrRunFrames : process_packet(packet)
NextChaddr == start \/ sniffChaddr
SpecChaddr == InitChaddr /\ [][NextChaddr]_vars

\* The link-layer sources of the Discovers captured so far.
SeenSources == { pr[1] : pr \in seen }

\* C19: the table key and the chaddr of every reply are the link-layer
\* source of the frame handled, whatever its chaddr field holds. Discovers
\* of one source share one entry, Discovers of different sources get
\* entries and addresses of their own even when their chaddr fields agree,
\* and a Request is acked by the entry of its source alone.
C19_IdentityIsLinkSource ==
    /\ [](/\ DOMAIN allocated_ips \subseteq SeenSources
          /\ available_ips # <<>> => DOMAIN allocated_ips = SeenSources
          /\ \A i \in DOMAIN sent :
                \E m \in DOMAIN allocated_ips : sent[i].chaddr = mac2str(m)
          /\ \A pr \in seen, qr \in seen :
                (/\ pr[1] # qr[1]
                 /\ pr[1] \in DOMAIN allocated_ips
                 /\ qr[1] \in DOMAIN allocated_ips) =>
                    allocated_ips[pr[1]] # allocated_ips[qr[1]])
    /\ [][\A p \in ChaddrRunFrames :
            (IsDiscover(p) /\ available_ips # <<>> /\ process_packet(p)) =>
                /\ DOMAIN allocated_ips' = DOMAIN allocated_ips \cup {p.src}
                /\ allocated_ips'[p.src] = Head(available_ips)
                /\ sent'[Len(sent')].chaddr = mac2str(p.src)]_vars
    /\ [][\A p \in ChaddrRunFrames :
            (IsRequest(p) /\ process_packet(p)) =>
                IF p.src \in DOMAIN allocated_ips
                THEN /\ Len(sent') = Len(sent) + 1
                     /\ sent'[Len(sent')].chaddr = mac2str(p.src)
                     /\ sent'[Len(sent')].yiaddr = allocated_ips[p.src]
                ELSE sent' = sent]_vars

\* Two Discovers of MacA with different chaddr fields and one of MacB with
\* the chaddr of the second: two entries, three Offers.
C19_Witness ==
    /\ seen = { <<MacA, mac2str(MacB)>>, <<MacA, mac2str(MacC)>>, <<MacB, mac2str(MacC)>> }
    /\ DOMAIN allocated_ips = {MacA, MacB}
    /\ allocated_ips[MacA] # allocated_ips[MacB]
    /\ Len(Offers) = 3
    /\ Cardinality({ i \in OfferIdx : sent[i].chaddr = mac2str(MacA) }) = 2
    /\ Cardinality({ i \in OfferIdx : sent[i].chaddr = mac2str(MacB) }) = 1

====
